---- MODULE Spec2Model ----
(***************************************************************************)
(* Training loops of train_baseline.py and train_meta_learning.py:         *)
(* start-up (model/optimizer/scheduler construction and the optional       *)
(* resume block), the step loop of main(), test(), and the checkpoint      *)
(* written after each evaluation.                                          *)
(*                                                                         *)
(* Numbers.  Python floats that the loops only pass around (losses,        *)
(* timings) are records [nan, v].  Learning rates are lr * lr_decay^k and  *)
(* are kept as the exponent k (lr_exp).  Label tensors are fixed-point:    *)
(* an entry n stands for n / Den, and the result of the in-place division  *)
(* is the fraction [n, d], or NaN for 0/0.  Model parameters and momentum  *)
(* buffers are kept as the number of optimizer steps that produced them    *)
(* (version, momentum) and whether they are NaN.                           *)
(***************************************************************************)
EXTENDS Integers, Sequences, FiniteSets, TLC

\* ------------------------------------------------------------------ bounds
TotalSteps == 4      \* --total_steps of the runs explored
TestFreq == 3        \* --test_freq of the runs explored
MaxScore == 2        \* test() returns an accuracy in 0..MaxScore
NumClasses == 2      \* columns of a prediction
Quantum == 4         \* softmax outputs are multiples of 1/Quantum

\* --------------------------------------------------------------- constants
NumMilestones == 2   \* MultiStepLR(milestones=[total_steps//2, total_steps*3//4])
Multiplier == 1      \* --multiplier, default 1.
LrDecayInv == 10     \* --lr_decay, default 0.1 = 1/LrDecayInv
BatchSize == 1       \* --batch_size of the runs explored: rows of a batch

VARIABLES
    script,            \* which file runs: "baseline" or "meta"
    argv,              \* the command line of the process: --start_step, --resume
    args,              \* the parsed command line (argparse namespace)
    disk,              \* save_path: "latest" (checkpoint.pth) and "best" copies
    pc,                \* Stopped | Running | Evaluating | Checkpointing | Completed | Crashed
    error,             \* the exception that ended the process, or "none"
    log,               \* notices logged by the resume block of this process
    checkpoint,        \* the bundle torch.load returned in this process, if any
    global_best_acc,   \* module-level best_acc bound by the resume block
    step,              \* loop variable of main()
    model,             \* backbone parameters and mode
    classifier,        \* classifier head (meta script only)
    optimizer,         \* SGD: param_groups[0]['lr'] exponent and momentum buffers
    lr_scheduler,      \* MultiStepLR.last_epoch
    best_acc,          \* main()'s local best_acc
    is_best,           \* main()'s local is_best
    meters,            \* main()'s local AverageMeter variables, by name
    unlabel_target,    \* refiner: softmax(unlabel_pred), the initial target
    unlabel_grad,      \* refiner: the meta-gradient
    unlabel_pseudo_gt, \* refiner: the target after the update and the projection
    scores,            \* history: the values test() returned in this process
    last_step,         \* history: the last optimizer.step() of this process
    iter               \* an iteration run statement by statement: position, .grad, history

vars == <<script, argv, args, disk, pc, error, log, checkpoint, global_best_acc, step,
          model, classifier, optimizer, lr_scheduler, best_acc, is_best, meters,
          unlabel_target, unlabel_grad, unlabel_pseudo_gt, scores, last_step, iter>>

\* ------------------------------------------------------------------ floats
Fin(x) == [nan |-> FALSE, v |-> x]
NaN == [nan |-> TRUE, v |-> 0]
FAdd(a, b) == IF a.nan \/ b.nan THEN NaN ELSE Fin(a.v + b.v)
FScale(a, n) == IF a.nan THEN NaN ELSE Fin(a.v * n)

RECURSIVE Pow(_, _)
Pow(b, e) == IF e <= 0 THEN 1 ELSE b * Pow(b, e - 1)

\* ----------------------------------------------------------- AverageMeter
AverageMeter == [kind |-> "meter", val |-> Fin(0), sum |-> Fin(0), count |-> 0]
Update(m, value, n) ==
    [kind |-> "meter", val |-> value,
     sum |-> FAdd(m.sum, FScale(value, n)), count |-> m.count + n]
Float(x) == [kind |-> "float", v |-> x]

\* ------------------------------------------------------ modules, optimizer
NewModule == [version |-> 0, nan |-> FALSE, training |-> TRUE]
StateDict(m) == [version |-> m.version, nan |-> m.nan]
LoadStateDict(m, sd) == [version |-> sd.version, nan |-> sd.nan, training |-> m.training]
Train(m) == [m EXCEPT !.training = TRUE]
Eval(m) == [m EXCEPT !.training = FALSE]

SGD == [lr_exp |-> 0, momentum |-> 0, nan |-> FALSE]

\* optimizer.step(): one update of every parameter and of its momentum buffer
\* from the gradient in .grad; a NaN gradient makes both NaN.
StepModule(m, grad) == [m EXCEPT !.version = @ + 1, !.nan = @ \/ grad.nan]
StepOptimizer(o, grad) == [o EXCEPT !.momentum = @ + 1, !.nan = @ \/ grad.nan]

\* ------------------------------------------------- parameter gradients
\* The statements of one iteration of the meta loop, in program order.
Order == <<"inner_backward", "fast_forward", "meta_gradient", "projection",
           "zero_grad", "backward", "optimizer_step", "lr_scheduler_step">>

\* The .grad of the parameters is the set of backward passes accumulated in
\* it, each named by its loss and its iteration, NaN when that gradient is.
GradOf(name, s, dloss) == [loss |-> name, step |-> s, nan |-> dloss.nan]
\* loss.backward(): the gradient dloss of the loss is added to .grad
Backward(grad, name, s, dloss) == grad \cup {GradOf(name, s, dloss)}
\* optimizer.zero_grad()
ZeroGradNoop(grad) == grad
ZeroGrad(grad) == {}

\* Before the first statement of the first iteration: .grad is empty.
NoIter == [at |-> 1, grad |-> {}, fast |-> <<>>, loss |-> <<>>, dloss |-> <<>>,
           start |-> <<>>, ops |-> <<>>, applied |-> <<>>]

\* ------------------------------------------------------------- MultiStepLR
Milestones(T) == <<T \div 2, (T * 3) \div 4>>
MilestoneHits(T, epoch) ==
    Cardinality({i \in 1..NumMilestones : Milestones(T)[i] = epoch})

\* MultiStepLR(optimizer, ...): last_epoch = 0 and the rate of epoch 0.
MultiStepLR(o, T) ==
    [optimizer |-> [o EXCEPT !.lr_exp = @ + MilestoneHits(T, 0)],
     lr_scheduler |-> [last_epoch |-> 0]]

\* lr_scheduler.step(): the next epoch; the optimizer's current rate is
\* multiplied by gamma once per milestone equal to that epoch.
SchedulerStep(o, sched, T) ==
    [optimizer |-> [o EXCEPT !.lr_exp = @ + MilestoneHits(T, sched.last_epoch + 1)],
     lr_scheduler |-> [last_epoch |-> sched.last_epoch + 1]]

\* --------------------------------------------------------------- refiner
MaxLrExp == 2 * NumMilestones
\* Label entries are numerators over Den, so that lr * lr_decay^k * g / Quantum
\* is a whole number of units for every k the optimizer can hold.
Den == Quantum * Pow(LrDecayInv, MaxLrExp)
LrNum(k) == Pow(LrDecayInv, MaxLrExp - k)

Cols == 1..NumClasses
Rows == 1..BatchSize

RECURSIVE SumTo(_, _)
SumTo(r, n) == IF n = 0 THEN 0 ELSE r[n] + SumTo(r, n - 1)
RowSum(r) == SumTo(r, NumClasses)

\* F.softmax(unlabel_pred, dim=1): positive rows that sum to 1.
SoftmaxRows ==
    {[c \in Cols |-> q[c] * Pow(LrDecayInv, MaxLrExp)] :
         q \in {x \in [Cols -> 1..Quantum] : RowSum(x) = Quantum}}
\* gradient rows as the update of line 128 takes them: entries of any sign,
\* up to a size that moves any entry of a row out of [0, 1] at the initial rate
GradRows == [Cols -> (0 - Quantum)..Quantum]

RECURSIVE DotTo(_, _, _)
DotTo(t, g, n) == IF n = 0 THEN 0 ELSE t[n] * g[n] + DotTo(t, g, n - 1)
Dot(t, g) == DotTo(t, g, NumClasses)
\* torch.autograd.grad(loss2, (unlabel_pseudo_gt, )) at the softmax rows t.
\* loss2 depends on unlabel_pseudo_gt only through the gradient of loss1 with
\* respect to the parameters, which is J^T (softmax * sum(gt) - gt) / B, so
\* each row of the result is w_k - (softmax . w) for some vector w: zero or
\* of mixed sign, with softmax . row = 0.
MetaGradRows(r) == {g \in GradRows : Dot(r, g) = 0}
AllMetaGradients(t) == {g \in [Rows -> GradRows] : \A i \in Rows : g[i] \in MetaGradRows(t[i])}
\* The loop is run on the rows whose w singles out one class (all of them
\* when there are two classes).
SingleClass(g) == \E j \in Cols : \A k, l \in Cols \ {j} : g[k] = g[l]
LoopGradRows == [r \in SoftmaxRows |-> {g \in MetaGradRows(r) : SingleClass(g)}]
MetaGradients(t) ==
    {g \in [Rows -> UNION {LoopGradRows[t[i]] : i \in Rows}] :
         \A i \in Rows : g[i] \in LoopGradRows[t[i]]}

Num(n, d) == [kind |-> "num", n |-> n, d |-> d]
NanEntry == [kind |-> "nan", n |-> 0, d |-> 0]
InfEntry == [kind |-> "inf", n |-> 0, d |-> 0]
\* x / s of two tensor entries with the common denominator Den
Div(x, s) == IF s = 0 THEN (IF x = 0 THEN NanEntry ELSE InfEntry) ELSE Num(x, s)

InnerLr(a, o) == (IF a.fix_inner THEN LrNum(0) ELSE LrNum(o.lr_exp)) * Multiplier

\* unlabel_pseudo_gt -= args.inner_lr * unlabel_grad, one row
UpdateRow(t, g, inner_lr) == [c \in Cols |-> t[c] - inner_lr * g[c]]
Clamp(r, lo, hi) == [c \in Cols |-> IF r[c] < lo THEN lo ELSE IF r[c] > hi THEN hi ELSE r[c]]
Relu(r) == [c \in Cols |-> IF r[c] < 0 THEN 0 ELSE r[c]]
NoNormalize(r) == [c \in Cols |-> Num(r[c], Den)]
Normalize(r) == [c \in Cols |-> Div(r[c], RowSum(r))]
Plain(r) == [c \in Cols |-> Num(r[c], Den)]

\* the branch on args.type
Project(type, r) ==
    IF type = "0" THEN Normalize(Clamp(r, 0, Den))
    ELSE IF type = "1" THEN Normalize(Relu(r))
    ELSE IF type = "2" THEN Plain(Relu(r))
    ELSE Plain(r)

Refine(a, o, t, g) == [i \in Rows |-> Project(a.type, UpdateRow(t[i], g[i], InnerLr(a, o)))]

\* With NaN parameters every forward pass is NaN, and so is every tensor
\* computed from one: the softmax of the prediction, the gradient of loss2,
\* and the refined labels (clamp, relu and the division keep NaN).
NanTensor == [i \in Rows |-> [c \in Cols |-> NanEntry]]
\* F.softmax(unlabel_pred, dim=1).detach()
Softmax(pred_nan, t) == IF pred_nan THEN NanTensor ELSE t
PseudoGt(pred_nan, t) == IF pred_nan THEN NanTensor ELSE [i \in Rows |-> Plain(t[i])]
\* torch.autograd.grad(loss2, (unlabel_pseudo_gt, ))
AutogradGrad(pred_nan, g) == IF pred_nan THEN NanTensor ELSE g
\* lines 126-137 on the tensors of this iteration
Refined(pred_nan, a, o, t, g) == IF pred_nan THEN NanTensor ELSE Refine(a, o, t, g)

\* F.kl_div(log_softmax(unlabel_pred), target, 'batchmean').  Per entry the
\* library computes xlogy(t, t) - t * input, or in its older versions
\* where(t > 0, t * (log t - input), 0); `value` is the loss of the batch
\* when nothing below makes it non-finite.
BadEntry(e) == e.kind # "num" \/ e.n < 0
Entries(target) == {target[i][c] : i \in Rows, c \in Cols}
KlDiv(xlogy, pred_nan, target, value) ==
    LET es == Entries(target)
        nonfinite ==
            IF xlogy
            THEN pred_nan \/ \E e \in es : BadEntry(e)
            ELSE \/ \E e \in es : e.kind = "inf"
                 \/ pred_nan /\ \E e \in es : e.kind = "num" /\ e.n > 0
    IN  IF nonfinite THEN NaN ELSE value
\* the gradient loss.backward() takes from that loss: with respect to the
\* prediction it is -t (where(t > 0, -t, 0)), finite for a finite t of any
\* sign; NaN parameters or a non-finite forward pass make it NaN.
KlDivGrad(xlogy, pred_nan, target, value) ==
    LET es == Entries(target)
    IN  [nan |-> \/ pred_nan
                 \/ value.nan
                 \/ \E e \in es : e.kind = "inf"
                 \/ xlogy /\ \E e \in es : e.kind = "nan"]

\* what the installed library can make of the final loss and its gradient
KlDivOutcomes(pred_nan, target, value) ==
    {[loss |-> KlDiv(xlogy, pred_nan, target, value),
      dloss |-> KlDivGrad(xlogy, pred_nan, target, value)] : xlogy \in BOOLEAN}

\* F.cross_entropy(label_pred, label_gt) and its gradient
CrossEntropy(pred_nan, value) == IF pred_nan THEN NaN ELSE value
CrossEntropyGrad(pred_nan, value) == [nan |-> pred_nan \/ value.nan]

LossValues == {Fin(1), NaN}

\* ------------------------------------------------------------- checkpoints
Scripts == {"baseline", "meta"}
Types == {"0", "1", "2", "3"}
Scores == 0..MaxScore
Paths == {"latest", "best"}

\* the keys of the dict passed to save_checkpoint
LoopKeys(sc) ==
    IF sc = "meta" THEN {"step", "model", "classifier", "best_acc", "optimizer"}
    ELSE {"step", "model", "best_acc", "optimizer"}

Bundle(sc, s, m, c, best, o) ==
    [step |-> s, model |-> StateDict(m), classifier |-> StateDict(c),
     best_acc |-> best, optimizer |-> o, keys |-> LoopKeys(sc)]

\* utils.save_checkpoint(state, is_best, path, filename): the bundle is stored
\* as the latest checkpoint and copied to the best one when is_best.
save_checkpoint(d, state, best) ==
    [d EXCEPT !["latest"] = <<state>>,
              !["best"] = IF best THEN <<state>> ELSE @]

\* The rate the optimizer holds after s scheduler steps of a run from step 0.
RECURSIVE HitsUpTo(_, _)
HitsUpTo(T, e) == IF e < 0 THEN 0 ELSE MilestoneHits(T, e) + HitsUpTo(T, e - 1)

\* A checkpoint found in save_path when the first process starts: a bundle of
\* an earlier run of s steps that also carries the 'epoch' entry the resume
\* block logs.
Found(sc, T, s, best) ==
    [Bundle(sc, s, [NewModule EXCEPT !.version = s],
            IF sc = "meta" THEN [NewModule EXCEPT !.version = s] ELSE NewModule,
            best, [SGD EXCEPT !.lr_exp = HitsUpTo(T, s), !.momentum = s])
     EXCEPT !.keys = @ \cup {"epoch"}]

NoFiles == [p \in Paths |-> <<>>]
InitialDisks(sc, T) ==
    {NoFiles} \cup
    {[p \in Paths |-> <<Found(sc, T, s, b)>>] : s \in {T \div 2}, b \in {MaxScore}}

\* ---------------------------------------------------------------- start-up
Meters(sc) ==
    IF sc = "meta"
    THEN {"data_times", "batch_times", "label_losses", "unlabel_losses",
          "label_acc", "unlabel_acc"}
    ELSE {"data_times", "batch_times", "losses", "acc"}
FreshMeters(sc) == [n \in Meters(sc) |-> AverageMeter]

\* the `else` branch of the resume block: args.start_step is left as parsed
NotFoundStartAtZero(a) == 0
NotFoundStart(a) == a.start_step

\* "Optionally resume from a checkpoint": what the block leaves behind, given
\* the freshly built model m, classifier c and optimizer o.
Resume(a, d, m, c, o) ==
    LET fresh == [start_step |-> a.start_step, best_acc |-> <<>>, model |-> m,
                  classifier |-> c, optimizer |-> o, checkpoint |-> <<>>,
                  log |-> {}, error |-> "none"]
    IN  IF a.resume = "none" THEN fresh
        ELSE IF d[a.resume] = <<>>
        THEN [fresh EXCEPT !.start_step = NotFoundStart(a),
                           !.log = {"no checkpoint found"}]
        ELSE LET ck == d[a.resume][1]
                 loaded == [start_step |-> ck.step, best_acc |-> <<ck.best_acc>>,
                            model |-> LoadStateDict(m, ck.model),
                            classifier |-> IF "classifier" \in ck.keys
                                           THEN LoadStateDict(c, ck.classifier) ELSE c,
                            optimizer |-> ck.optimizer, checkpoint |-> <<ck>>,
                            log |-> {"loading checkpoint"}, error |-> "none"]
             IN  IF "epoch" \in ck.keys
                 THEN [loaded EXCEPT !.log = @ \cup {"loaded checkpoint"}]
                 ELSE [loaded EXCEPT !.error = "KeyError: 'epoch'"]

Init ==
    /\ script \in Scripts
    /\ args \in [total_steps : {TotalSteps}, test_freq : {TestFreq}, type : Types,
                 fix_inner : BOOLEAN, start_step : {0}, resume : {"none"}]
    /\ script = "baseline" => args.type = "0" /\ args.fix_inner = FALSE
    /\ argv = [start_step |-> 0, resume |-> "none"]
    /\ disk \in InitialDisks(script, args.total_steps)
    /\ pc = "Stopped"
    /\ error = "none"
    /\ log = {}
    /\ checkpoint = <<>>
    /\ global_best_acc = <<>>
    /\ step = 0
    /\ model = NewModule
    /\ classifier = NewModule
    /\ optimizer = SGD
    /\ lr_scheduler = [last_epoch |-> 0]
    /\ best_acc = 0
    /\ is_best = FALSE
    /\ meters = FreshMeters(script)
    /\ unlabel_target = <<>>
    /\ unlabel_grad = <<>>
    /\ unlabel_pseudo_gt = <<>>
    /\ scores = <<>>
    /\ last_step = <<>>
    /\ iter = NoIter

\* A process is started: `python train_*.py --start_step s --resume r`.  The
\* module-level code builds model, optimizer and scheduler and runs the resume
\* block; main() then creates its meters, sets best_acc = 0., puts the model
\* in training mode and enters the loop at args.start_step.
Launch(s, r) ==
    /\ pc = "Stopped"
    /\ argv' = [start_step |-> s, resume |-> r]
    /\ LET a == [args EXCEPT !.start_step = s, !.resume = r]
           built == MultiStepLR(SGD, a.total_steps)
           res == Resume(a, disk, NewModule, NewModule, built.optimizer)
       IN  /\ args' = [a EXCEPT !.start_step = res.start_step]
           /\ log' = res.log
           /\ error' = res.error
           /\ checkpoint' = res.checkpoint
           /\ global_best_acc' = res.best_acc
           /\ optimizer' = res.optimizer
           /\ lr_scheduler' = built.lr_scheduler
           /\ step' = res.start_step
           /\ IF res.error # "none"
              THEN /\ pc' = "Crashed"
                   /\ model' = res.model
                   /\ classifier' = res.classifier
              ELSE /\ pc' = IF res.start_step < a.total_steps THEN "Running" ELSE "Completed"
                   /\ model' = Train(res.model)
                   /\ classifier' = Train(res.classifier)
    /\ best_acc' = 0
    /\ is_best' = FALSE
    /\ meters' = FreshMeters(script)
    /\ unlabel_target' = <<>>
    /\ unlabel_grad' = <<>>
    /\ unlabel_pseudo_gt' = <<>>
    /\ scores' = <<>>
    /\ last_step' = <<>>
    /\ iter' = NoIter
    /\ UNCHANGED <<script, disk>>

\* ----------------------------------------------------------------- main()
\* `if (step + 1) % args.test_freq == 0 or step == args.total_steps - 1`
IsTestStep(a, s) == (s + 1) % a.test_freq = 0 \/ s = a.total_steps - 1

\* the head of `for step in range(args.start_step, args.total_steps)` after
\* iteration s: the next iteration, or the end of main()
NextPc(a, s) == IF s + 1 < a.total_steps THEN "Running" ELSE "Completed"

\* accuracy(label_pred, label_gt, topk=(1,)) of a training batch
Top1Values == {Fin(0), Fin(1)}
\* time.time() differences, in ticks
Elapsed == Fin(1)

\* "One SGD step": optimizer.zero_grad(); loss.backward(); optimizer.step();
\* lr_scheduler.step()
SgdStep(loss, dloss) ==
    LET stepped == StepOptimizer(optimizer, dloss)
        sched == SchedulerStep(stepped, lr_scheduler, args.total_steps)
    IN  /\ model' = StepModule(model, dloss)
        /\ classifier' = IF script = "meta" THEN StepModule(classifier, dloss) ELSE classifier
        /\ optimizer' = sched.optimizer
        /\ lr_scheduler' = sched.lr_scheduler
        /\ last_step' = <<[step |-> step, lr_exp |-> optimizer.lr_exp, loss |-> loss]>>

\* train_baseline.py, one iteration up to the test of `Test and save model`.
TrainBaseline(value, top1) ==
    /\ script = "baseline"
    /\ pc = "Running"
    /\ LET loss == CrossEntropy(model.nan, value)
       IN  /\ SgdStep(loss, CrossEntropyGrad(model.nan, value))
           /\ meters' = [meters EXCEPT
                  !["data_times"] = Update(@, Elapsed, 1),
                  !["batch_times"] = Update(@, Elapsed, 1),
                  !["losses"] = Update(@, loss, BatchSize),
                  !["acc"] = Update(@, top1, BatchSize)]
    /\ IF IsTestStep(args, step)
       THEN pc' = "Evaluating" /\ step' = step
       ELSE pc' = NextPc(args, step) /\ step' = step + 1
    /\ UNCHANGED <<iter, script, argv, args, disk, error, log, checkpoint, global_best_acc,
                   best_acc, is_best, unlabel_target, unlabel_grad, unlabel_pseudo_gt, scores>>

\* train_meta_learning.py, one iteration: the refiner, the SGD step, and the
\* `continue` that ends the iteration there.  unlabel_target is the value
\* line 115 binds to unlabel_pseudo_gt, unlabel_pseudo_gt the value lines
\* 128-137 leave in it.
TrainMeta(t, g, value) ==
    /\ script = "meta"
    /\ pc = "Running"
    /\ LET pred_nan == model.nan \/ classifier.nan
           refined == Refined(pred_nan, args, optimizer, t, g)
       IN  /\ unlabel_target' = Softmax(pred_nan, t)
           /\ unlabel_grad' = AutogradGrad(pred_nan, g)
           /\ unlabel_pseudo_gt' = refined
           /\ \E out \in KlDivOutcomes(pred_nan, refined, value) :
                  SgdStep(out.loss, out.dloss)
    /\ pc' = NextPc(args, step)
    /\ step' = step + 1
    /\ UNCHANGED <<iter, script, argv, args, disk, error, log, checkpoint, global_best_acc,
                   best_acc, is_best, meters, scores>>

\* test(), returning normally: eval mode, the pass over test_loader, train
\* mode again, `acc = test()`.
TestReturns(score) ==
    /\ pc = "Evaluating"
    /\ model' = Train(Eval(model))
    /\ classifier' = IF script = "meta" THEN Train(Eval(classifier)) ELSE classifier
    /\ meters' = [meters EXCEPT !["acc"] = Float(score)]
    /\ scores' = Append(scores, score)
    /\ pc' = "Checkpointing"
    /\ UNCHANGED <<iter, script, argv, args, disk, error, log, checkpoint, global_best_acc, step,
                   optimizer, lr_scheduler, best_acc, is_best, unlabel_target,
                   unlabel_grad, unlabel_pseudo_gt, last_step>>

\* test(), an exception raised inside the `with torch.no_grad()` block: it
\* propagates through main() and ends the process.
TestRaises ==
    /\ pc = "Evaluating"
    /\ model' = Eval(model)
    /\ classifier' = IF script = "meta" THEN Eval(classifier) ELSE classifier
    /\ error' = "exception in test()"
    /\ pc' = "Crashed"
    /\ UNCHANGED <<iter, script, argv, args, disk, log, checkpoint, global_best_acc, step,
                   optimizer, lr_scheduler, best_acc, is_best, meters,
                   unlabel_target, unlabel_grad, unlabel_pseudo_gt, scores, last_step>>

\* the rest of `Test and save model` in train_baseline.py
SaveBestOrEqual(acc, best) == acc >= best
SaveBest(acc, best) == acc > best
Checkpoint ==
    /\ pc = "Checkpointing"
    /\ LET acc == meters["acc"].v
           best == SaveBest(acc, best_acc)
           new_best == IF best THEN acc ELSE best_acc
       IN  /\ is_best' = best
           /\ best_acc' = new_best
           /\ disk' = save_checkpoint(
                  disk, Bundle(script, step + 1, model, classifier, new_best, optimizer),
                  best)
    /\ meters' = [meters EXCEPT !["losses"] = AverageMeter, !["acc"] = AverageMeter]
    /\ pc' = NextPc(args, step)
    /\ step' = step + 1
    /\ UNCHANGED <<iter, script, argv, args, error, log, checkpoint, global_best_acc, model,
                   classifier, optimizer, lr_scheduler, unlabel_target, unlabel_grad,
                   unlabel_pseudo_gt, scores, last_step>>

\* No process is left: its memory is gone, save_path stays.
Gone ==
    /\ pc' = "Stopped"
    /\ error' = "none"
    /\ log' = {}
    /\ checkpoint' = <<>>
    /\ global_best_acc' = <<>>
    /\ step' = 0
    /\ model' = NewModule
    /\ classifier' = NewModule
    /\ optimizer' = SGD
    /\ lr_scheduler' = [last_epoch |-> 0]
    /\ best_acc' = 0
    /\ is_best' = FALSE
    /\ meters' = FreshMeters(script)
    /\ unlabel_target' = <<>>
    /\ unlabel_grad' = <<>>
    /\ unlabel_pseudo_gt' = <<>>
    /\ scores' = <<>>
    /\ last_step' = <<>>
    /\ iter' = NoIter
    /\ argv' = [start_step |-> 0, resume |-> "none"]
    /\ args' = [args EXCEPT !.start_step = 0, !.resume = "none"]
    /\ UNCHANGED <<script, disk>>

\* The process is interrupted between two iterations.
Interrupt ==
    /\ pc = "Running"
    /\ Gone

\* The process ends: main() returned, or the exception reached the top level.
Exit ==
    /\ pc \in {"Completed", "Crashed"}
    /\ Gone

Next ==
    \/ \E s \in 0..TotalSteps, r \in {"none"} \cup Paths : Launch(s, r)
    \/ \E value \in LossValues, top1 \in Top1Values : TrainBaseline(value, top1)
    \/ \E t \in [Rows -> SoftmaxRows], value \in LossValues :
           \E g \in MetaGradients(t) : TrainMeta(t, g, value)
    \/ \E score \in Scores : TestReturns(score)
    \/ TestRaises
    \/ Checkpoint
    \/ Interrupt
    \/ Exit

Spec == Init /\ [][Next]_vars

\* --------------------------------------------------- the refiner by itself
\* Lines 114-137 at any rate the optimizer can hold: every softmax target,
\* and every gradient within GradRows that line 123 can return for it.
InitRefine ==
    /\ script = "meta"
    /\ argv = [start_step |-> 0, resume |-> "none"]
    /\ args \in [total_steps : {TotalSteps}, test_freq : {TestFreq}, type : Types,
                 fix_inner : BOOLEAN, start_step : {0}, resume : {"none"}]
    /\ disk = NoFiles
    /\ pc = "Running"
    /\ error = "none"
    /\ log = {}
    /\ checkpoint = <<>>
    /\ global_best_acc = <<>>
    /\ step = 0
    /\ model = NewModule
    /\ classifier = NewModule
    /\ optimizer \in {[SGD EXCEPT !.lr_exp = k] : k \in 0..NumMilestones}
    /\ lr_scheduler = [last_epoch |-> 0]
    /\ best_acc = 0
    /\ is_best = FALSE
    /\ meters = FreshMeters(script)
    /\ unlabel_target = <<>>
    /\ unlabel_grad = <<>>
    /\ unlabel_pseudo_gt = <<>>
    /\ scores = <<>>
    /\ last_step = <<>>
    /\ iter = NoIter

RefineStep(t, g) ==
    /\ script = "meta"
    /\ pc = "Running"
    /\ unlabel_target' = t
    /\ unlabel_grad' = g
    /\ unlabel_pseudo_gt' = Refine(args, optimizer, t, g)
    /\ UNCHANGED <<iter, script, argv, args, disk, pc, error, log, checkpoint, global_best_acc,
                   step, model, classifier, optimizer, lr_scheduler, best_acc, is_best,
                   meters, scores, last_step>>

NextRefine ==
    \E t \in [Rows -> SoftmaxRows] : \E g \in AllMetaGradients(t) : RefineStep(t, g)

SpecRefine == InitRefine /\ [][NextRefine]_vars

\* --------------------------------- one iteration, statement by statement
\* The body of the meta loop run one statement group at a time: iter.at is the
\* place in Order of the next one, iter.grad the .grad of the parameters.
\* History: iter.start is the parameters and momentum buffers at the top of
\* the iteration, iter.ops the statements run since, iter.applied the .grad
\* that optimizer.step() consumed.
InitIter ==
    /\ script = "meta"
    /\ argv = [start_step |-> 0, resume |-> "none"]
    /\ args \in [total_steps : {TotalSteps}, test_freq : {TestFreq}, type : Types,
                 fix_inner : BOOLEAN, start_step : {0}, resume : {"none"}]
    /\ disk = NoFiles
    /\ pc = "Running"
    /\ error = "none"
    /\ log = {}
    /\ checkpoint = <<>>
    /\ global_best_acc = <<>>
    /\ step = 0
    /\ model = NewModule
    /\ classifier = NewModule
    /\ optimizer = MultiStepLR(SGD, TotalSteps).optimizer
    /\ lr_scheduler = MultiStepLR(SGD, TotalSteps).lr_scheduler
    /\ best_acc = 0
    /\ is_best = FALSE
    /\ meters = FreshMeters(script)
    /\ unlabel_target = <<>>
    /\ unlabel_grad = <<>>
    /\ unlabel_pseudo_gt = <<>>
    /\ scores = <<>>
    /\ last_step = <<>>
    /\ iter = NoIter

At(name) == script = "meta" /\ pc = "Running" /\ Order[iter.at] = name
Ran(name) == Append(iter.ops, name)

\* what optimizer.step() and the fast weights can change
Params == [step |-> step, model |-> StateDict(model), classifier |-> StateDict(classifier),
           momentum |-> optimizer.momentum, nan |-> optimizer.nan]

\* F.kl_div(log_softmax(unlabel_pred), softmax(unlabel_pred).detach())
Loss1(pred_nan) == IF pred_nan THEN NaN ELSE Fin(0)

\* model(label_img, inner_lr): the weights of the forward pass are values
\* computed from the parameters and their .grad; the parameters stay.
FastWeights(m, inner_lr, grad) == [base |-> StateDict(m), inner_lr |-> inner_lr, grad |-> grad]

\* the NaN-ness of the update optimizer.step() makes from .grad
Accumulated(grad) == [nan |-> \E g \in grad : g.nan]

\* unlabel_pred, unlabel_pseudo_gt, loss1, loss1.backward(create_graph=True)
InnerBackward(t) ==
    /\ At("inner_backward")
    /\ unlabel_target' = Softmax(model.nan \/ classifier.nan, t)
    /\ unlabel_pseudo_gt' = PseudoGt(model.nan \/ classifier.nan, t)
    /\ iter' = [at |-> 2,
                grad |-> Backward(iter.grad, "loss1", step,
                                  Loss1(model.nan \/ classifier.nan)),
                fast |-> <<>>, loss |-> <<>>, dloss |-> <<>>, start |-> <<Params>>,
                ops |-> <<"inner_backward">>, applied |-> <<>>]
    /\ UNCHANGED <<script, argv, args, disk, pc, error, log, checkpoint, global_best_acc,
                   step, model, classifier, optimizer, lr_scheduler, best_acc, is_best,
                   meters, unlabel_grad, scores, last_step>>

\* label_pred = classifier(model(label_img, inner_lr), inner_lr); loss2
FastForward ==
    /\ At("fast_forward")
    /\ iter' = [iter EXCEPT
           !.at = 3,
           !.fast = <<[model |-> FastWeights(model, InnerLr(args, optimizer), iter.grad),
                       classifier |-> FastWeights(classifier, InnerLr(args, optimizer),
                                                  iter.grad)]>>,
           !.ops = Ran("fast_forward")]
    /\ UNCHANGED <<script, argv, args, disk, pc, error, log, checkpoint, global_best_acc,
                   step, model, classifier, optimizer, lr_scheduler, best_acc, is_best,
                   meters, unlabel_target, unlabel_grad, unlabel_pseudo_gt, scores,
                   last_step>>

\* unlabel_grad, = torch.autograd.grad(loss2, (unlabel_pseudo_gt, ), ...):
\* the gradient is returned, .grad is not touched
MetaGradient ==
    /\ At("meta_gradient")
    /\ \E g \in (IF model.nan \/ classifier.nan
                THEN {NanTensor} ELSE MetaGradients(unlabel_target)) :
           unlabel_grad' = g
    /\ iter' = [iter EXCEPT !.at = 4, !.ops = Ran("meta_gradient")]
    /\ UNCHANGED <<script, argv, args, disk, pc, error, log, checkpoint, global_best_acc,
                   step, model, classifier, optimizer, lr_scheduler, best_acc, is_best,
                   meters, unlabel_target, unlabel_pseudo_gt, scores, last_step>>

\* the update and projection of unlabel_pseudo_gt, and the final loss
Projection(value) ==
    /\ At("projection")
    /\ LET pred_nan == model.nan \/ classifier.nan
           refined == Refined(pred_nan, args, optimizer, unlabel_target, unlabel_grad)
       IN  /\ unlabel_pseudo_gt' = refined
           /\ \E out \in KlDivOutcomes(pred_nan, refined, value) :
                  iter' = [iter EXCEPT
                  !.at = 5,
                  !.loss = <<out.loss>>,
                  !.dloss = <<out.dloss>>,
                  !.ops = Ran("projection")]
    /\ UNCHANGED <<script, argv, args, disk, pc, error, log, checkpoint, global_best_acc,
                   step, model, classifier, optimizer, lr_scheduler, best_acc, is_best,
                   meters, unlabel_target, unlabel_grad, scores, last_step>>

\* optimizer.zero_grad()
ZeroGradStep ==
    /\ At("zero_grad")
    /\ iter' = [iter EXCEPT !.at = 6, !.grad = ZeroGrad(iter.grad), !.ops = Ran("zero_grad")]
    /\ UNCHANGED <<script, argv, args, disk, pc, error, log, checkpoint, global_best_acc,
                   step, model, classifier, optimizer, lr_scheduler, best_acc, is_best,
                   meters, unlabel_target, unlabel_grad, unlabel_pseudo_gt, scores,
                   last_step>>

\* loss.backward()
FinalBackward ==
    /\ At("backward")
    /\ iter' = [iter EXCEPT !.at = 7,
                            !.grad = Backward(iter.grad, "loss", step, iter.dloss[1]),
                            !.ops = Ran("backward")]
    /\ UNCHANGED <<script, argv, args, disk, pc, error, log, checkpoint, global_best_acc,
                   step, model, classifier, optimizer, lr_scheduler, best_acc, is_best,
                   meters, unlabel_target, unlabel_grad, unlabel_pseudo_gt, scores,
                   last_step>>

\* optimizer.step()
OptimizerStep ==
    /\ At("optimizer_step")
    /\ model' = StepModule(model, Accumulated(iter.grad))
    /\ classifier' = StepModule(classifier, Accumulated(iter.grad))
    /\ optimizer' = StepOptimizer(optimizer, Accumulated(iter.grad))
    /\ last_step' = <<[step |-> step, lr_exp |-> optimizer.lr_exp, loss |-> iter.loss[1]]>>
    /\ iter' = [iter EXCEPT !.at = 8, !.applied = <<iter.grad>>,
                            !.ops = Ran("optimizer_step")]
    /\ UNCHANGED <<script, argv, args, disk, pc, error, log, checkpoint, global_best_acc,
                   step, lr_scheduler, best_acc, is_best, meters, unlabel_target,
                   unlabel_grad, unlabel_pseudo_gt, scores>>

\* lr_scheduler.step(), and the `continue` that ends the iteration
ScheduleAdvance ==
    /\ At("lr_scheduler_step")
    /\ LET sched == SchedulerStep(optimizer, lr_scheduler, args.total_steps)
       IN  /\ optimizer' = sched.optimizer
           /\ lr_scheduler' = sched.lr_scheduler
    /\ pc' = NextPc(args, step)
    /\ step' = step + 1
    /\ iter' = [iter EXCEPT !.at = 1, !.ops = Ran("lr_scheduler_step")]
    /\ UNCHANGED <<script, argv, args, disk, error, log, checkpoint, global_best_acc,
                   model, classifier, best_acc, is_best, meters, unlabel_target,
                   unlabel_grad, unlabel_pseudo_gt, scores, last_step>>

NextIter ==
    \/ \E t \in [Rows -> SoftmaxRows] : InnerBackward(t)
    \/ FastForward
    \/ MetaGradient
    \/ \E value \in LossValues : Projection(value)
    \/ ZeroGradStep
    \/ FinalBackward
    \/ OptimizerStep
    \/ ScheduleAdvance

SpecIter == InitIter /\ [][NextIter]_vars

\* ================================================================== claims
Latest == disk["latest"][1]
Best == disk["best"][1]
LastStep == last_step[1]
Loaded == checkpoint[1]
TestRaised == pc = "Crashed" /\ error = "exception in test()"

\* C1: in both loops an iteration goes on to the evaluator exactly when
\* (step+1) is a multiple of test_freq or step is the last one, the evaluator
\* is followed by the checkpoint write, and the checkpoint write (of step+1)
\* is what leads to the next iteration or to completion.
C1_TestStepsEvaluateThenCheckpoint ==
    [][/\ (pc = "Running" /\ pc' # "Stopped")
            => (IsTestStep(args, step) <=> pc' = "Evaluating")
       /\ (pc = "Evaluating" /\ pc' # "Crashed") => pc' = "Checkpointing"
       /\ pc = "Checkpointing"
            => /\ pc' \in {"Running", "Completed"}
               /\ disk'["latest"] # <<>>
               /\ disk'["latest"][1].step = step + 1]_vars

\* C2: under policies 0 and 1, for every softmax target and every gradient
\* the meta-gradient step returns for it, every row of the refined
\* pseudo-label is a probability vector: every entry is a number in [0, 1]
\* and the row sums to 1.
InUnitInterval(e) == e.kind = "num" /\ e.d > 0 /\ 0 <= e.n /\ e.n <= e.d
IsProbabilityRow(r) ==
    /\ \A c \in Cols : InUnitInterval(r[c])
    /\ \A c \in Cols : r[c].d = r[1].d
    /\ SumTo([c \in Cols |-> r[c].n], NumClasses) = r[1].d
C2_RefinedRowsAreProbabilityVectors ==
    (args.type \in {"0", "1"} /\ unlabel_pseudo_gt # <<>>)
        => \A i \in Rows : IsProbabilityRow(unlabel_pseudo_gt[i])

\* C2 witness: under policy 1 the update took an entry of a row below zero,
\* the projection clipped it to 0 and renormalised the row, which is a
\* probability vector.
C2_Witness ==
    /\ args.type = "1"
    /\ unlabel_pseudo_gt # <<>>
    /\ \E i \in Rows : \E c \in Cols :
           /\ UpdateRow(unlabel_target[i], unlabel_grad[i], InnerLr(args, optimizer))[c] < 0
           /\ unlabel_pseudo_gt[i][c].n = 0
           /\ IsProbabilityRow(unlabel_pseudo_gt[i])

\* C3: a process that resumed from a checkpoint holding exactly the entries
\* the loop writes has not failed, and before its first iteration it stands
\* at the recorded step with the recorded parameters and optimizer state.
C3_ResumeOfLoopCheckpointSucceeds ==
    (pc # "Stopped" /\ checkpoint # <<>> /\ Loaded.keys = LoopKeys(script)
        /\ last_step = <<>>)
        => /\ error = "none"
           /\ pc \in {"Running", "Completed"}
           /\ step = Loaded.step
           /\ StateDict(model) = Loaded.model
           /\ optimizer = Loaded.optimizer

\* C4 (as claimed): every checkpoint cycle of a run that started fresh writes
\* the latest bundle, and the best copy is written exactly when the score
\* exceeds every score of the earlier evaluations, so always at the first one.
ExceedsAll(x, seen) == \A i \in 1..Len(seen) : x > seen[i]
Earlier == SubSeq(scores, 1, Len(scores) - 1)
Current == scores[Len(scores)]
CycleWrites(best_expected) ==
    /\ disk'["latest"] # <<>>
    /\ disk'["latest"][1].step = step + 1
    /\ IF best_expected
       THEN is_best' /\ disk'["best"] = disk'["latest"]
       ELSE ~is_best' /\ disk'["best"] = disk["best"]
C4_BestCopyWhenScoreExceedsEarlierScores ==
    [][(pc = "Checkpointing" /\ checkpoint = <<>>)
         => CycleWrites(ExceedsAll(Current, Earlier))]_vars

\* C4 (amended): every checkpoint cycle writes the latest bundle, and the
\* best copy is written exactly when the score is strictly greater than 0 and
\* than every score of the earlier evaluations of the same run of main().
C4_BestCopyWhenScoreExceedsZeroAndEarlierScores ==
    [][pc = "Checkpointing"
         => CycleWrites(Current > 0 /\ ExceedsAll(Current, Earlier))]_vars

\* C4 witness: the first evaluation of a fresh run scored 0; its cycle wrote
\* the latest bundle and no best copy.
C4_Witness ==
    /\ script = "baseline"
    /\ pc = "Running"
    /\ checkpoint = <<>>
    /\ scores = <<0>>
    /\ ~is_best
    /\ disk["latest"] # <<>>
    /\ disk["best"] = <<>>

\* C5: once a process has resumed from a checkpoint with best score B, every
\* checkpoint it writes records a best score of at least B, and the best copy
\* it leaves holds a best score of at least B.
C5_BestScoreNeverDecreasesAcrossResume ==
    [][(checkpoint # <<>> /\ disk' # disk)
         => /\ disk'["latest"][1].best_acc >= Loaded.best_acc
            /\ disk'["best"] # <<>>
            /\ disk'["best"][1].best_acc >= Loaded.best_acc]_vars

\* C6: the optimizer step of global step s uses the rate lr * lr_decay^k
\* with k = 0 for s < total_steps/2, 1 up to total_steps*3/4, 2 from there on,
\* wherever the run started.
ScheduleExp(T, s) == IF s < T \div 2 THEN 0 ELSE IF s < (T * 3) \div 4 THEN 1 ELSE 2
C6_RateFollowsGlobalStep ==
    last_step # <<>> => LastStep.lr_exp = ScheduleExp(args.total_steps, LastStep.step)

\* A process was started with --resume naming a path that holds no file, and
\* has not run an iteration yet.
ResumeNotFound ==
    /\ pc # "Stopped"
    /\ argv.resume # "none"
    /\ disk[argv.resume] = <<>>
    /\ last_step = <<>>
StartedFresh ==
    /\ error = "none"
    /\ pc \in {"Running", "Completed"}
    /\ "no checkpoint found" \in log
    /\ checkpoint = <<>>
    /\ global_best_acc = <<>>
    /\ model = NewModule
    /\ optimizer = MultiStepLR(SGD, args.total_steps).optimizer
    /\ best_acc = 0

\* C7 (as claimed): with a resume path that holds no file, start-up does not
\* fail, the notice is logged, nothing is loaded and the loop starts at step 0.
C7_MissingCheckpointStartsAtStepZero ==
    ResumeNotFound => (StartedFresh /\ step = 0)

\* C7 (amended): with a resume path that holds no file, start-up does not
\* fail, the notice is logged, nothing is loaded and the loop starts at the
\* configured --start_step (0 unless given).
C7_MissingCheckpointStartsAtConfiguredStep ==
    ResumeNotFound => (StartedFresh /\ step = argv.start_step)

\* C7 witness: started with a missing resume path and --start_step > 0, the
\* loop stands at that step.
C7_Witness ==
    /\ ResumeNotFound
    /\ pc = "Running"
    /\ argv.start_step > 0
    /\ step = argv.start_step

\* C8: when control leaves test(), by return or by exception, the model (and
\* the classifier) is in training mode and no parameter was changed.
C8_TrainingModeRestoredOnEveryExit ==
    [][pc = "Evaluating"
         => /\ model'.training
            /\ classifier'.training
            /\ StateDict(model') = StateDict(model)
            /\ StateDict(classifier') = StateDict(classifier)]_vars

\* C9: no optimizer step is applied with a NaN or infinite loss.
C9_NoOptimizerStepWithNonFiniteLoss ==
    last_step # <<>> => ~LastStep.loss.nan

\* C10: right after a checkpoint cycle every running metric of the loop is an
\* empty aggregator.
C10_AllMetersEmptyAfterCycle ==
    [][pc = "Checkpointing"
         => \A n \in Meters(script) : meters'[n] = AverageMeter]_vars

\* C11: in every iteration of the meta loop the statements run in the order
\* refiner (inner backward, fast-weights forward, meta-gradient, projection),
\* zero_grad, final backward, optimizer step, schedule advance; the parameters
\* and the momentum buffers are as they were at the top of the iteration until
\* the optimizer step (the fast weights are never written into them) and one
\* update further after it; the .grad that step consumes holds the gradient of
\* the final loss of this iteration and nothing else; the schedule advances
\* last.
IterStart == iter.start[1]
C11_OneCommitPerIterationFromFinalLossOnly ==
    iter.ops # <<>> =>
        LET n == Len(iter.ops)
        IN  /\ iter.ops = SubSeq(Order, 1, n)
            /\ n < 7 => /\ StateDict(model) = IterStart.model
                        /\ StateDict(classifier) = IterStart.classifier
                        /\ optimizer.momentum = IterStart.momentum
                        /\ optimizer.nan = IterStart.nan
                        /\ iter.applied = <<>>
            /\ n >= 7 =>
                   /\ model.version = IterStart.model.version + 1
                   /\ classifier.version = IterStart.classifier.version + 1
                   /\ optimizer.momentum = IterStart.momentum + 1
                   /\ iter.applied = <<{GradOf("loss", IterStart.step, iter.dloss[1])}>>
                   /\ model.nan = (IterStart.model.nan \/ iter.dloss[1].nan)
                   /\ classifier.nan = (IterStart.classifier.nan \/ iter.dloss[1].nan)
                   /\ optimizer.nan = (IterStart.nan \/ iter.dloss[1].nan)
            /\ lr_scheduler.last_epoch = IterStart.step + (IF n = 8 THEN 1 ELSE 0)

\* C11 witness: a later iteration has run to its end; its fast-weights forward
\* saw a .grad holding the previous iteration's final gradient and this
\* iteration's inner gradient, the optimizer step consumed the final gradient
\* alone, and the parameters moved by one update.
C11_Witness ==
    /\ iter.ops = Order
    /\ IterStart.step >= 1
    /\ GradOf("loss", IterStart.step - 1, [nan |-> FALSE]) \in iter.fast[1].model.grad
    /\ GradOf("loss1", IterStart.step, [nan |-> FALSE]) \in iter.fast[1].model.grad
    /\ iter.fast[1].model.base = IterStart.model
    /\ iter.applied = <<{GradOf("loss", IterStart.step, iter.dloss[1])}>>
    /\ model.version = IterStart.model.version + 1
    /\ lr_scheduler.last_epoch = IterStart.step + 1

====
